---- MODULE Spec2Model ----
(***************************************************************************)
(* CXR-AI.py: one Streamlit script run that sends an uploaded chest X-ray   *)
(* to a hosted model, parses the reply with parse_gemini_json, draws one    *)
(* hover overlay per finding and writes the findings log.                   *)
(*                                                                          *)
(* Text is a sequence of atoms.  An atom is one character (a backquote, the  *)
(* double quote, a bracket, a digit) or a run of letters that no pattern of *)
(* str.replace can split ("json", "label", "NaN", ...).  Python values are  *)
(* tagged records [t, v]: t = "num" (int), "nan" (float nan), "str" (v the  *)
(* atoms of the string), "arr" (v a sequence of values, a list), "obj" (v a *)
(* sequence of <<key, value>> pairs in insertion order, a dict).            *)
(* The lexemes true, false, null, fractions and exponents are not in the    *)
(* alphabet of the replies drawn here.                                      *)
(***************************************************************************)
EXTENDS Integers, Sequences, FiniteSets, TLC

VARIABLES
    sent,        \* what the hosted model means to report (its findings), or NoValue
    reply,       \* the text the hosted model answers with (response.text)
    width,       \* img.size[0]
    height,      \* img.size[1]
    clicked,     \* index of the "Consult" button whose click started this run, 0: none
    pc,          \* position of the script run
    calls,       \* calls of model.generate_content in this run
    detections,  \* value returned by parse_gemini_json
    i,           \* loop index of the overlay loop / of the findings-log loop
    fig,         \* Scatter traces added to the figure so far
    chart,       \* traces shown by st.plotly_chart, or <<>> while nothing is shown
    shown,       \* TRUE once st.plotly_chart has run
    log,         \* entries written to the findings log
    notes,       \* st.write / st.info messages of the log column
    errors       \* st.error messages of this run

vars == <<sent, reply, width, height, clicked, pc, calls, detections, i, fig,
          chart, shown, log, notes, errors>>

-----------------------------------------------------------------------------
(* Atoms *)

TICK == "tick"   \* one backquote character
QUOTE == "\""
WS == " "
DigitSeq == <<"0", "1", "2", "3", "4", "5", "6", "7", "8", "9">>
Digits == {DigitSeq[k] : k \in 1..10}
DigitVal(a) == (CHOOSE k \in 1..10 : DigitSeq[k] = a) - 1

Num(n) == [t |-> "num", v |-> n]
Str(s) == [t |-> "str", v |-> s]
Arr(s) == [t |-> "arr", v |-> s]
Obj(s) == [t |-> "obj", v |-> s]
NaN == [t |-> "nan", v |-> 0]
NoValue == [t |-> "none", v |-> 0]

-----------------------------------------------------------------------------
(* str.replace(pat, ""): the non-overlapping occurrences of pat, found left *)
(* to right, are removed.                                                   *)

Occurrences(s, pat) ==
    {k \in 1..(Len(s) - Len(pat) + 1) : SubSeq(s, k, k + Len(pat) - 1) = pat}
Least(S) == CHOOSE k \in S : \A j \in S : k <= j

RECURSIVE Remove(_, _)
Remove(s, pat) ==
    IF Occurrences(s, pat) = {} THEN s
    ELSE LET k == Least(Occurrences(s, pat))
         IN SubSeq(s, 1, k - 1) \o Remove(SubSeq(s, k + Len(pat), Len(s)), pat)

FenceJson == <<TICK, TICK, TICK, "json">>
Fence == <<TICK, TICK, TICK>>

StripFences(text) == Remove(Remove(text, FenceJson), Fence)

-----------------------------------------------------------------------------
(* json.loads (json.decoder and json.scanner of Python, with the default    *)
(* parse_constant, which accepts NaN).                                      *)

RECURSIVE SkipWs(_, _)
SkipWs(s, p) == IF p <= Len(s) /\ s[p] = WS THEN SkipWs(s, p + 1) ELSE p

Bad(p) == [ok |-> FALSE, val |-> NoValue, next |-> p]
Good(v, p) == [ok |-> TRUE, val |-> v, next |-> p]

\* scanstring: from the atom after the opening quote to the closing quote
ScanString(s, p) ==
    LET closing == {k \in p..Len(s) : s[k] = QUOTE}
    IN IF closing = {} THEN Bad(p)
       ELSE Good(Str(SubSeq(s, p, Least(closing) - 1)), Least(closing) + 1)

\* NUMBER_RE: -?(0|[1-9][0-9]*)
RECURSIVE ScanDigits(_, _, _)
ScanDigits(s, p, acc) ==
    IF p <= Len(s) /\ s[p] \in Digits
    THEN ScanDigits(s, p + 1, acc * 10 + DigitVal(s[p]))
    ELSE [val |-> acc, next |-> p]

ScanNumber(s, p) ==
    LET neg == p <= Len(s) /\ s[p] = "-"
        q == IF neg THEN p + 1 ELSE p
    IN IF q > Len(s) \/ s[q] \notin Digits THEN Bad(p)
       ELSE LET r == IF s[q] = "0" THEN [val |-> 0, next |-> q + 1]
                     ELSE ScanDigits(s, q, 0)
            IN Good(Num(IF neg THEN 0 - r.val ELSE r.val), r.next)

\* dict[key] = value: a repeated key keeps its place and takes the last value
RECURSIVE Put(_, _, _)
Put(pairs, key, val) ==
    IF pairs = <<>> THEN << <<key, val>> >>
    ELSE IF Head(pairs)[1] = key THEN << <<key, val>> >> \o Tail(pairs)
    ELSE <<Head(pairs)>> \o Put(Tail(pairs), key, val)

RECURSIVE ScanOnce(_, _)
RECURSIVE ArrayItems(_, _, _)
RECURSIVE ObjectPairs(_, _, _)

\* JSONArray: p is the place of a value
ArrayItems(s, p, acc) ==
    LET r == ScanOnce(s, p)
    IN IF ~r.ok THEN r
       ELSE LET q == SkipWs(s, r.next)
                items == Append(acc, r.val)
            IN IF q > Len(s) THEN Bad(q)
               ELSE IF s[q] = "]" THEN Good(Arr(items), q + 1)
               ELSE IF s[q] = "," THEN ArrayItems(s, SkipWs(s, q + 1), items)
               ELSE Bad(q)

\* JSONObject: p is the place of the opening quote of a key
ObjectPairs(s, p, acc) ==
    IF p > Len(s) \/ s[p] # QUOTE THEN Bad(p)
    ELSE LET k == ScanString(s, p + 1)
         IN IF ~k.ok THEN k
            ELSE LET c == SkipWs(s, k.next)
                 IN IF c > Len(s) \/ s[c] # ":" THEN Bad(c)
                    ELSE LET r == ScanOnce(s, SkipWs(s, c + 1))
                         IN IF ~r.ok THEN r
                            ELSE LET q == SkipWs(s, r.next)
                                     pairs == Put(acc, k.val.v, r.val)
                                 IN IF q > Len(s) THEN Bad(q)
                                    ELSE IF s[q] = "}" THEN Good(Obj(pairs), q + 1)
                                    ELSE IF s[q] = ","
                                         THEN ObjectPairs(s, SkipWs(s, q + 1), pairs)
                                    ELSE Bad(q)

ScanOnce(s, p) ==
    IF p > Len(s) THEN Bad(p)
    ELSE IF s[p] = QUOTE THEN ScanString(s, p + 1)
    ELSE IF s[p] = "{"
         THEN LET q == SkipWs(s, p + 1)
              IN IF q <= Len(s) /\ s[q] = "}" THEN Good(Obj(<<>>), q + 1)
                 ELSE ObjectPairs(s, q, <<>>)
    ELSE IF s[p] = "["
         THEN LET q == SkipWs(s, p + 1)
              IN IF q <= Len(s) /\ s[q] = "]" THEN Good(Arr(<<>>), q + 1)
                 ELSE ArrayItems(s, q, <<>>)
    ELSE IF s[p] \in Digits \/ s[p] = "-" THEN ScanNumber(s, p)
    ELSE IF s[p] = "NaN" THEN Good(NaN, p + 1)
    ELSE Bad(p)

\* json.loads: a value between optional whitespace, and nothing after it
Loads(s) ==
    LET r == ScanOnce(s, SkipWs(s, 1))
    IN IF r.ok /\ SkipWs(s, r.next) = Len(s) + 1 THEN r ELSE Bad(1)

\* parse_gemini_json
parse_gemini_json(text) ==
    LET r == Loads(StripFences(text))
    IN IF r.ok THEN r.val ELSE Arr(<<>>)

-----------------------------------------------------------------------------
(* What the script does with a decoded value *)

\* bool(x) of "if detections:"
Truthy(x) ==
    CASE x.t = "arr" -> x.v # <<>>
      [] x.t = "obj" -> x.v # <<>>
      [] x.t = "str" -> x.v # <<>>
      [] x.t = "num" -> x.v # 0
      [] OTHER -> TRUE

\* "for d in x" and "a, b, c, e = x" need an iterable: a list gives its items,
\* a dict its keys, a str its characters
Iterable(x) == x.t \in {"arr", "obj", "str"}
Items(x) ==
    CASE x.t = "arr" -> x.v
      [] x.t = "obj" -> [k \in 1..Len(x.v) |-> Str(x.v[k][1])]
      [] x.t = "str" -> [k \in 1..Len(x.v) |-> Str(<<x.v[k]>>)]
      [] OTHER -> <<>>

\* d.get(key, default)
RECURSIVE Lookup(_, _, _)
Lookup(pairs, key, default) ==
    IF pairs = <<>> THEN default
    ELSE IF Head(pairs)[1] = key THEN Head(pairs)[2]
    ELSE Lookup(Tail(pairs), key, default)
\* Mutant of Get: d.get(key), the default forgotten
GetWithoutDefault(d, key, default) == Lookup(d.v, key, NoValue)
Get(d, key, default) == Lookup(d.v, key, default)

DefaultLabel == Str(<<"Unknown">>)
DefaultBox == Arr(<<Num(0), Num(0), Num(0), Num(0)>>)
DefaultDesc == Str(<<>>)
DefaultConf == Num(0)

\* The quotient n / d in lowest terms.  A coordinate (c / 1000) * dim is kept
\* as the exact quotient c * dim / 1000; the rounding of the two float
\* operations is not modelled.
RECURSIVE GCD(_, _)
GCD(a, b) == IF b = 0 THEN a ELSE GCD(b, a % b)
Abs(n) == IF n < 0 THEN 0 - n ELSE n
Frac(n, d) == LET g == GCD(Abs(n), d) IN [n |-> n \div g, d |-> d \div g]
NaNPixel == [n |-> 0, d |-> 0]

Scale == 1000

\* Mutant of Project: the component clamped to 0..1000 first
ProjectClamped(c, dim) ==
    IF c.t # "num" THEN NaNPixel
    ELSE Frac((IF c.v < 0 THEN 0 ELSE IF c.v > Scale THEN Scale ELSE c.v) * dim, Scale)

\* (c / 1000) * dim
Project(c, dim) == IF c.t = "num" THEN Frac(c.v * dim, Scale) ELSE NaNPixel

\* x >= n and x < n of a number; every comparison with nan is False
Numeric(x) == x.t \in {"num", "nan"}
Ge(x, n) == x.t = "num" /\ x.v >= n
Lt(x, n) == x.t = "num" /\ x.v < n

HighMin == 70
ModerateMin == 40

box_color(conf) ==
    IF Ge(conf, HighMin) THEN "rgba(0, 255, 0, 0.2)"
    ELSE IF Ge(conf, ModerateMin) THEN "rgba(255, 165, 0, 0.2)"
    ELSE "rgba(255, 0, 0, 0.2)"

\* Mutant of ConfidenceLogic: > for >=
ConfidenceLogicStrict(conf) ==
    IF Ge(conf, HighMin + 1)
    THEN [color_str |-> "green", icon |-> "check", status |-> "High Accuracy"]
    ELSE IF Ge(conf, ModerateMin + 1)
    THEN [color_str |-> "orange", icon |-> "warning", status |-> "Moderate Accuracy"]
    ELSE [color_str |-> "red", icon |-> "question", status |-> "Low Accuracy"]

\* Mutant of ConfidenceLogic: a confidence above 100 is refused the upper buckets
ConfidenceLogicRanged(conf) ==
    IF Ge(conf, HighMin) /\ Lt(conf, 101)
    THEN [color_str |-> "green", icon |-> "check", status |-> "High Accuracy"]
    ELSE IF Ge(conf, ModerateMin) /\ Lt(conf, 101)
    THEN [color_str |-> "orange", icon |-> "warning", status |-> "Moderate Accuracy"]
    ELSE [color_str |-> "red", icon |-> "question", status |-> "Low Accuracy"]

\* Confidence Logic of the findings log
ConfidenceLogic(conf) ==
    IF Ge(conf, HighMin)
    THEN [color_str |-> "green", icon |-> "check", status |-> "High Accuracy"]
    ELSE IF Ge(conf, ModerateMin)
    THEN [color_str |-> "orange", icon |-> "warning", status |-> "Moderate Accuracy"]
    ELSE [color_str |-> "red", icon |-> "question", status |-> "Low Accuracy"]

\* Mutant of ButtonOffered: <= for <
ButtonOfferedInclusive(conf) == Lt(conf, HighMin + 1)

\* "if conf < 70": the Consult button is offered
ButtonOffered(conf) == Lt(conf, HighMin)

x_path(x1, x2) == <<x1, x2, x2, x1, x1>>
\* Mutant of y_path: the second and fourth corner exchanged
y_pathSwapped(y1, y2) == <<y1, y2, y2, y1, y1>>
y_path(y1, y2) == <<y1, y1, y2, y2, y1>>

\* One iteration of the overlay loop: the Scatter trace of finding d, or the
\* exception the iteration raises.  box_color is the local of the iteration;
\* it is computed and not passed to go.Scatter.  The wrapped hover text is
\* kept as the description and the confidence it is formatted from.
OverlayOf(d, w, h) ==
    IF d.t # "obj" THEN [ok |-> FALSE, err |-> "AttributeError"]
    ELSE LET label == Get(d, <<"label">>, DefaultLabel)
             box == Get(d, <<"box_2d">>, DefaultBox)
             desc == Get(d, <<"description">>, DefaultDesc)
             conf == Get(d, <<"confidence">>, DefaultConf)
         IN IF ~Iterable(box) THEN [ok |-> FALSE, err |-> "TypeError"]
            ELSE IF Len(Items(box)) # 4 THEN [ok |-> FALSE, err |-> "ValueError"]
            ELSE LET b == Items(box)
                 IN IF \E k \in 1..4 : ~Numeric(b[k])
                    THEN [ok |-> FALSE, err |-> "TypeError"]
                    ELSE IF ~Numeric(conf) THEN [ok |-> FALSE, err |-> "TypeError"]
                    ELSE LET abs_y1 == Project(b[1], h)
                             abs_x1 == Project(b[2], w)
                             abs_y2 == Project(b[3], h)
                             abs_x2 == Project(b[4], w)
                         IN [ok |-> TRUE,
                             trace |-> [name |-> label,
                                        x |-> x_path(abs_x1, abs_x2),
                                        y |-> y_path(abs_y1, abs_y2),
                                        customdata |-> <<desc, conf>>,
                                        box_color |-> box_color(conf)]]

\* One iteration of the findings-log loop
LogOf(d, k, click) ==
    IF d.t # "obj" THEN [ok |-> FALSE, err |-> "AttributeError"]
    ELSE LET label == Get(d, <<"label">>, DefaultLabel)
             desc == Get(d, <<"description">>, DefaultDesc)
             conf == Get(d, <<"confidence">>, DefaultConf)
             c == ConfidenceLogic(conf)
         IN IF ~Numeric(conf) THEN [ok |-> FALSE, err |-> "TypeError"]
            ELSE [ok |-> TRUE,
                  entry |-> [label |-> label, desc |-> desc, conf |-> conf,
                             color_str |-> c.color_str, icon |-> c.icon,
                             status |-> c.status,
                             button |-> ButtonOffered(conf),
                             consulted |-> ButtonOffered(conf) /\ click = k]]

-----------------------------------------------------------------------------
(* The script run *)

\* How many times the loops over detections iterate
Rounds(x) == IF Truthy(x) /\ Iterable(x) THEN Len(Items(x)) ELSE 0

StartRun(s, text, w, h) ==
    /\ sent = s
    /\ reply = text
    /\ width = w
    /\ height = h
    /\ clicked = 0
    /\ pc = "start"
    /\ calls = 0
    /\ detections = NoValue
    /\ i = 0
    /\ fig = <<>>
    /\ chart = <<>>
    /\ shown = FALSE
    /\ log = <<>>
    /\ notes = <<>>
    /\ errors = <<>>

\* Mutant of Generate: a failed call is tried once more
GenerateRetry ==
    /\ pc = "start"
    /\ calls < 2
    /\ calls' = calls + 1
    /\ \E ok \in BOOLEAN :
          IF ok THEN pc' = "parse" /\ errors' = errors
          ELSE IF calls = 0 THEN pc' = "start" /\ errors' = errors
          ELSE pc' = "error" /\ errors' = Append(errors, "generate_content")
    /\ UNCHANGED <<sent, reply, width, height, clicked, detections, i, fig, chart,
                   shown, log, notes>>

\* response = model.generate_content([prompt, img]): the reply, or an exception
Generate ==
    /\ pc = "start"
    /\ calls' = calls + 1
    /\ \E ok \in BOOLEAN :
          IF ok THEN pc' = "parse" /\ errors' = errors
          ELSE pc' = "error" /\ errors' = Append(errors, "generate_content")
    /\ UNCHANGED <<sent, reply, width, height, clicked, detections, i, fig, chart,
                   shown, log, notes>>

\* detections = parse_gemini_json(response.text); fig = go.Figure()
Parse ==
    /\ pc = "parse"
    /\ detections' = parse_gemini_json(reply)
    /\ fig' = <<>>
    /\ i' = 1
    /\ pc' = "overlay"
    /\ UNCHANGED <<sent, reply, width, height, clicked, calls, chart, shown, log,
                   notes, errors>>

\* One iteration of "if detections: for d in detections:" (or the TypeError of
\* a value that is true and cannot be iterated)
Overlay ==
    /\ pc = "overlay"
    /\ Truthy(detections)
    /\ ~Iterable(detections) \/ i <= Len(Items(detections))
    /\ IF ~Iterable(detections)
       THEN /\ pc' = "error"
            /\ errors' = Append(errors, "TypeError")
            /\ UNCHANGED <<fig, i>>
       ELSE LET r == OverlayOf(Items(detections)[i], width, height)
            IN IF r.ok
               THEN /\ fig' = Append(fig, r.trace)
                    /\ i' = i + 1
                    /\ UNCHANGED <<pc, errors>>
               ELSE /\ pc' = "error"
                    /\ errors' = Append(errors, r.err)
                    /\ UNCHANGED <<fig, i>>
    /\ UNCHANGED <<sent, reply, width, height, clicked, calls, detections, chart,
                   shown, log, notes>>

\* fig.update_layout(...); st.plotly_chart(fig)
Render ==
    /\ pc = "overlay"
    /\ i > Rounds(detections)
    /\ ~Truthy(detections) \/ Iterable(detections)
    /\ chart' = fig
    /\ shown' = TRUE
    /\ i' = 1
    /\ pc' = "log"
    /\ UNCHANGED <<sent, reply, width, height, clicked, calls, detections, fig, log,
                   notes, errors>>

\* One iteration of the findings-log loop
LogEntry ==
    /\ pc = "log"
    /\ i <= Rounds(detections)
    /\ LET r == LogOf(Items(detections)[i], i, clicked)
       IN IF r.ok
          THEN /\ log' = Append(log, r.entry)
               /\ notes' = IF r.entry.consulted
                           THEN Append(notes, "running deep analysis") ELSE notes
               /\ i' = i + 1
               /\ UNCHANGED <<pc, errors>>
          ELSE /\ pc' = "error"
               /\ errors' = Append(errors, r.err)
               /\ UNCHANGED <<log, notes, i>>
    /\ UNCHANGED <<sent, reply, width, height, clicked, calls, detections, fig, chart,
                   shown>>

\* The end of the script: "No specific pathology detected." when detections is false
Finish ==
    /\ pc = "log"
    /\ i > Rounds(detections)
    /\ notes' = IF Truthy(detections) THEN notes
                ELSE Append(notes, "No specific pathology detected.")
    /\ pc' = "done"
    /\ UNCHANGED <<sent, reply, width, height, clicked, calls, detections, i, fig,
                   chart, shown, log, errors>>

\* A click on the Consult button of entry k: Streamlit runs the script again
Click ==
    /\ pc = "done"
    /\ \E k \in 1..Len(log) :
          /\ log[k].button
          /\ clicked' = k
    /\ pc' = "start"
    /\ calls' = 0
    /\ detections' = NoValue
    /\ i' = 0
    /\ fig' = <<>>
    /\ chart' = <<>>
    /\ shown' = FALSE
    /\ log' = <<>>
    /\ notes' = <<>>
    /\ errors' = <<>>
    /\ UNCHANGED <<sent, reply, width, height>>

Next == Generate \/ Parse \/ Overlay \/ Render \/ LogEntry \/ Finish \/ Click

-----------------------------------------------------------------------------
(* The hosted model: the JSON text of the findings it reports, written the  *)
(* way the prompt asks for ("Only return the JSON list", keys label, box_2d, *)
(* description, confidence), bare or inside a ```json fence.                 *)

RECURSIVE DumpNat(_)
DumpNat(n) == IF n < 10 THEN <<DigitSeq[n + 1]>>
              ELSE DumpNat(n \div 10) \o <<DigitSeq[(n % 10) + 1]>>
DumpInt(n) == IF n < 0 THEN <<"-">> \o DumpNat(0 - n) ELSE DumpNat(n)

RECURSIVE Dump(_)
RECURSIVE DumpItems(_)
RECURSIVE DumpPairs(_)
DumpItems(items) ==
    IF items = <<>> THEN <<>>
    ELSE IF Len(items) = 1 THEN Dump(items[1])
    ELSE Dump(items[1]) \o <<",">> \o DumpItems(Tail(items))
DumpPairs(pairs) ==
    IF pairs = <<>> THEN <<>>
    ELSE LET one == <<QUOTE>> \o pairs[1][1] \o <<QUOTE, ":">> \o Dump(pairs[1][2])
         IN IF Len(pairs) = 1 THEN one
            ELSE one \o <<",">> \o DumpPairs(Tail(pairs))
Dump(x) ==
    CASE x.t = "num" -> DumpInt(x.v)
      [] x.t = "str" -> <<QUOTE>> \o x.v \o <<QUOTE>>
      [] x.t = "arr" -> <<"[">> \o DumpItems(x.v) \o <<"]">>
      [] x.t = "obj" -> <<"{">> \o DumpPairs(x.v) \o <<"}">>
      [] OTHER -> <<"NaN">>

Fenced(text) == FenceJson \o <<WS>> \o text \o <<WS>> \o Fence

\* A finding object; a field given as NoValue is left out
Finding(label, box, desc, conf) ==
    Obj(SelectSeq(<< <<(<<"label">>), label>>, <<(<<"box_2d">>), box>>,
                     <<(<<"description">>), desc>>, <<(<<"confidence">>), conf>> >>,
                  LAMBDA pr : pr[2].t # "none"))

Box(y_min, x_min, y_max, x_max) == Arr(<<Num(y_min), Num(x_min), Num(y_max), Num(x_max)>>)

-----------------------------------------------------------------------------
(* Bounds and the replies drawn *)

MaxLen == 4          \* atoms of a free-form reply
MaxFindings == 2     \* findings of a reported list
MaxDim == 2          \* image widths and heights 1..MaxDim (and 1000)
MaxConf == 120       \* confidences -MaxConf..MaxConf

RawAlphabet == {"[", "]", "{", "}", QUOTE, "0", "7", "NaN", TICK, "Sorry"}
RawTexts == UNION {[1..n -> RawAlphabet] : n \in 0..MaxLen}

Labels == {NoValue, Str(<<"a">>)}
Boxes == {NoValue, Box(500, 300, 900, 700)}
Descs == {NoValue, Str(<<"see", TICK, TICK, TICK, "json">>)}
Confs == {NoValue, Num(95)}
SmallFindings == {Finding(l, b, d, c) : l \in Labels, b \in Boxes, d \in Descs, c \in Confs}

YVals == {-100, 0, 500, 900, 1000, 1500}
XVals == {-100, 0, 300, 700, 1000, 1500}
Dims == (1..MaxDim) \cup {Scale}

\* Any reply of at most MaxLen atoms
InitText ==
    \E text \in RawTexts : StartRun(NoValue, text, 640, 480)

\* A list of at most MaxFindings findings, some with fields left out, bare or fenced
Init ==
    \E n \in 0..MaxFindings : \E fs \in [1..n -> SmallFindings] : \E fenced \in BOOLEAN :
        StartRun(Arr(fs), IF fenced THEN Fenced(Dump(Arr(fs))) ELSE Dump(Arr(fs)),
                 640, 480)

\* One finding with any box over YVals and XVals, on an image of any size over Dims
InitBoxes ==
    \E a \in YVals : \E b \in XVals : \E c \in YVals : \E e \in XVals :
    \E w \in Dims : \E h \in Dims :
        LET s == Arr(<<Finding(Str(<<"a">>), Box(a, b, c, e), Str(<<>>), Num(55))>>)
        IN StartRun(s, Dump(s), w, h)

\* One finding with any integer confidence in -MaxConf..MaxConf
InitScored ==
    \E c \in (0 - MaxConf)..MaxConf :
        LET s == Arr(<<Finding(Str(<<"a">>), Box(0, 0, 1000, 1000), Str(<<>>), Num(c))>>)
        IN StartRun(s, Dump(s), 640, 480)

Spec == Init /\ [][Next]_vars
SpecText == InitText /\ [][Next]_vars
SpecBoxes == InitBoxes /\ [][Next]_vars
SpecScored == InitScored /\ [][Next]_vars

-----------------------------------------------------------------------------
(* Vocabulary of the properties *)

Parsed == detections # NoValue
CallFailed == \E k \in 1..Len(errors) : errors[k] = "generate_content"

HasKey(d, key) == \E k \in 1..Len(d.v) : d.v[k][1] = key
FieldOr(d, key, default) ==
    IF HasKey(d, key) THEN d.v[CHOOSE k \in 1..Len(d.v) : d.v[k][1] = key][2]
    ELSE default

\* A decoded value denotes a NaN constant somewhere
RECURSIVE HasNaN(_)
HasNaN(x) ==
    CASE x.t = "nan" -> TRUE
      [] x.t = "arr" -> \E k \in 1..Len(x.v) : HasNaN(x.v[k])
      [] x.t = "obj" -> \E k \in 1..Len(x.v) : HasNaN(x.v[k][2])
      [] OTHER -> FALSE

\* The text is JSON (RFC 8259): the grammar of the decoder without the
\* constant NaN, which JSON does not have
StrictJson(text) == Loads(text).ok /\ ~HasNaN(Loads(text).val)

WellFormed(d) ==
    /\ d.t = "obj"
    /\ \A key \in {<<"label">>, <<"box_2d">>, <<"description">>, <<"confidence">>} :
          HasKey(d, key)

IsFindingSeq(x) == x.t = "arr" /\ \A k \in 1..Len(x.v) : x.v[k].t = "obj"

BucketOfStatus(status) ==
    CASE status = "High Accuracy" -> "high"
      [] status = "Moderate Accuracy" -> "moderate"
      [] status = "Low Accuracy" -> "low"

BucketOfColor(rgba) ==
    CASE rgba = "rgba(0, 255, 0, 0.2)" -> "high"
      [] rgba = "rgba(255, 165, 0, 0.2)" -> "moderate"
      [] rgba = "rgba(255, 0, 0, 0.2)" -> "low"

\* The pixel value p is the quotient (c / 1000) * dim
IsScaled(p, c, dim) == p.d > 0 /\ p.n * 1000 = c * dim * p.d
Pixel(n) == [n |-> n, d |-> 1]

\* The box of finding k as four integers
BoxOf(k) == LET b == FieldOr(detections.v[k], <<"box_2d">>, Box(0, 0, 0, 0)).v
            IN [j \in 1..4 |-> b[j].v]
ConfOf(k) == FieldOr(detections.v[k], <<"confidence">>, Num(0)).v
Point(tr, j) == <<tr.x[j], tr.y[j]>>

-----------------------------------------------------------------------------
(* Properties *)

\* C1: whenever the reply, with the fence markup removed, is not valid JSON,
\* parse_gemini_json returns the empty sequence.
C1_InvalidJsonGivesEmpty ==
    (Parsed /\ ~StrictJson(StripFences(reply))) => detections = Arr(<<>>)

\* C2: a reported list of well-formed findings (all four fields), bare or
\* fenced, is returned with the same length, order and field values.
C2_RoundTrip ==
    (Parsed /\ \A k \in 1..Len(sent.v) : WellFormed(sent.v[k])) => detections = sent

\* C3: a finding that lacks fields is processed with the defaults "Unknown",
\* [0,0,0,0], "" and 0, and no finding stops the ones after it: every finding
\* of the parsed sequence gets its overlay and its log entry.
C3_MissingFieldsDefaulted ==
    /\ \A k \in 1..Len(errors) : errors[k] = "generate_content"
    /\ pc \in {"log", "done"} => shown /\ Len(chart) = Len(detections.v)
    /\ pc = "done" => Len(log) = Len(detections.v)
    /\ \A k \in 1..Len(fig) :
          LET d == detections.v[k]
          IN /\ fig[k].name = FieldOr(d, <<"label">>, Str(<<"Unknown">>))
             /\ fig[k].customdata = <<FieldOr(d, <<"description">>, Str(<<>>)),
                                      FieldOr(d, <<"confidence">>, Num(0))>>
             /\ ~HasKey(d, <<"box_2d">>) =>
                   \A j \in 1..5 : Point(fig[k], j) = <<Pixel(0), Pixel(0)>>
    /\ \A k \in 1..Len(log) :
          LET d == detections.v[k]
          IN /\ log[k].label = FieldOr(d, <<"label">>, Str(<<"Unknown">>))
             /\ log[k].desc = FieldOr(d, <<"description">>, Str(<<>>))
             /\ log[k].conf = FieldOr(d, <<"confidence">>, Num(0))

\* C3 witness: a run ends with two findings processed, the first an object
\* with no field at all.
C3_Witness ==
    /\ pc = "done"
    /\ Len(detections.v) = 2
    /\ detections.v[1] = Obj(<<>>)
    /\ Len(chart) = 2
    /\ Len(log) = 2
    /\ log[1].label = Str(<<"Unknown">>)

\* C4: for an integer confidence c in 0..100 the bucket, of the log entry and
\* of box_color alike, is high iff c >= 70, moderate iff 40 <= c < 70 and low
\* iff c < 40.
C4_Buckets ==
    /\ \A k \in 1..Len(log) :
          LET c == ConfOf(k)
              b == BucketOfStatus(log[k].status)
          IN c \in 0..100 =>
                /\ b = "high" <=> c >= 70
                /\ b = "moderate" <=> (40 <= c /\ c < 70)
                /\ b = "low" <=> c < 40
    /\ \A k \in 1..Len(fig) :
          LET c == ConfOf(k)
              b == BucketOfColor(fig[k].box_color)
          IN c \in 0..100 =>
                /\ b = "high" <=> c >= 70
                /\ b = "moderate" <=> (40 <= c /\ c < 70)
                /\ b = "low" <=> c < 40

\* C4 witness: a finding of confidence exactly 70 is logged as high.
C4_Witness ==
    /\ pc = "done"
    /\ Len(log) = 1
    /\ ConfOf(1) = 70
    /\ log[1].status = "High Accuracy"

C6_ClosedPath ==
    \A k \in 1..Len(fig) :
        LET b == BoxOf(k)
            tr == fig[k]
        IN /\ Len(tr.x) = 5 /\ Len(tr.y) = 5
           /\ Point(tr, 5) = Point(tr, 1)
           /\ \E x1 \in {tr.x[1]} : \E y1 \in {tr.y[1]} :
              \E x2 \in {tr.x[3]} : \E y2 \in {tr.y[3]} :
                 /\ IsScaled(x1, b[2], width) /\ IsScaled(y1, b[1], height)
                 /\ IsScaled(x2, b[4], width) /\ IsScaled(y2, b[3], height)
                 /\ <<Point(tr, 1), Point(tr, 2), Point(tr, 3), Point(tr, 4), Point(tr, 5)>>
                       = << <<x1, y1>>, <<x2, y1>>, <<x2, y2>>, <<x1, y2>>, <<x1, y1>> >>
           /\ b = <<0, 0, 1000, 1000>> =>
                 <<Point(tr, 1), Point(tr, 2), Point(tr, 3), Point(tr, 4), Point(tr, 5)>>
                    = << <<Pixel(0), Pixel(0)>>, <<Pixel(width), Pixel(0)>>,
                         <<Pixel(width), Pixel(height)>>, <<Pixel(0), Pixel(height)>>,
                         <<Pixel(0), Pixel(0)>> >>

\* C6 witness: the full-image box has been drawn on an image with W # H.
C6_Witness ==
    /\ shown
    /\ Len(chart) = 1
    /\ BoxOf(1) = <<0, 0, 1000, 1000>>
    /\ width = 2 /\ height = 1
    /\ Point(chart[1], 3) = <<Pixel(2), Pixel(1)>>

\* C7 as stated: every integer confidence outside 0..100, negative or above
\* 100, is put in the low bucket.
C7_OutOfRangeIsLow ==
    \A k \in 1..Len(log) :
        ConfOf(k) \notin 0..100 => BucketOfStatus(log[k].status) = "low"

\* C7 amended: a negative confidence falls through both comparisons to the
\* low bucket; a confidence above 100 passes the first comparison (>= 70) and
\* is put in the high bucket.  Log entry and box_color agree on it.
C7_OutOfRange ==
    /\ \A k \in 1..Len(log) :
          /\ ConfOf(k) < 0 => BucketOfStatus(log[k].status) = "low"
          /\ ConfOf(k) > 100 => BucketOfStatus(log[k].status) = "high"
    /\ \A k \in 1..Len(fig) :
          /\ ConfOf(k) < 0 => BucketOfColor(fig[k].box_color) = "low"
          /\ ConfOf(k) > 100 => BucketOfColor(fig[k].box_color) = "high"

\* C7 witness: a finding of confidence 101 is logged as high.
C7_Witness ==
    /\ pc = "done"
    /\ Len(log) = 1
    /\ ConfOf(1) = 101
    /\ log[1].status = "High Accuracy"
    /\ log[1].color_str = "green"

\* C8: the value parse_gemini_json returns is a sequence of finding records;
\* this holds for every reply that parses as JSON, whatever JSON value it
\* denotes.
C8_ReturnsFindingSeq ==
    (Parsed /\ StrictJson(StripFences(reply))) => IsFindingSeq(detections)

\* C9: in every run the hosted model is called exactly once; when that call
\* fails, one failure is reported and the run ends with no overlay trace and
\* no log entry.
C9_OneCall ==
    /\ calls <= 1
    /\ pc # "start" => calls = 1
    /\ CallFailed =>
          /\ pc = "error"
          /\ Len(errors) = 1
          /\ fig = <<>> /\ chart = <<>> /\ ~shown
          /\ log = <<>> /\ notes = <<>>
          /\ ~ENABLED Next

\* C9 witness: the call has failed.
C9_Witness == pc = "error" /\ calls = 1 /\ errors = <<"generate_content">>

\* C10: for every finding the bucket of box_color and the bucket of the log
\* entry are the same, and the Consult button is offered exactly when that
\* bucket is not high.
C10_SameBucket ==
    \A k \in 1..Len(log) :
        /\ BucketOfColor(chart[k].box_color) = BucketOfStatus(log[k].status)
        /\ log[k].button <=> BucketOfStatus(log[k].status) # "high"
        /\ log[k].button <=> ConfOf(k) < 70

\* C10 witness: a finding of confidence 69 is moderate in both places and
\* has its button.
C10_Witness ==
    /\ pc = "done"
    /\ Len(log) = 1
    /\ ConfOf(1) = 69
    /\ log[1].button
    /\ BucketOfColor(chart[1].box_color) = "moderate"

====
